---- MODULE Spec2Model ----
(***************************************************************************)
(* Sliding-window rate limiter of src/infrastructure/rate_limit/mod.rs     *)
(* (RedisRateLimiter::check_rate_limit) against a Redis store holding one  *)
(* sorted set per client key.  One check is a sequence of store commands   *)
(* (ZADD, EXPIRE, ZREMRANGEBYSCORE, ZCOUNT, ZRANGE); every command is an   *)
(* await point, so the commands of concurrent checks interleave and the    *)
(* wall clock may advance between any two of them.                         *)
(***************************************************************************)
EXTENDS Integers, Sequences, FiniteSets, TLC

\* ---------------------------------------------------------------- bounds
\* Largest max_requests and window_seconds a configuration is drawn from.
MaxMaxRequests == 2
MaxWindow == 2
\* Seconds the wall clock may advance, and calls that may be made.
MaxTicks == 2
MaxChecks == 3
\* Store commands (or connection acquisitions) that may fail.
MaxFailures == 1
\* The same for the specification of two racing checks on one key.
RaceTicks == 4
RaceChecks == 4
\* The same for the specification of one client observed over a long time.
LongTicks == 8
LongChecks == 3
\* The same for the specification of a store that may stop answering.
HangTicks == 2
HangChecks == 3

\* Client identifiers (the middleware passes the peer's IP) and tasks that
\* may each be running one check_rate_limit call.
Keys == {"A", "B"}
Procs == {1, 2}

\* u64 arithmetic wraps modulo 2^64 in a release build.  TLC's integers are
\* 32 bits wide, so the modulus is scaled down; every timestamp of the model
\* is far below it, so a wrapped value is as recognisable as with 2^64.
U64Mod == 2^30

VARIABLES
    max_requests,     \* RateLimitConfig.max_requests
    window_seconds,   \* RateLimitConfig.window_seconds
    clock,            \* wall clock, in seconds (chrono::Utc::now / Redis time)
    zset,             \* Redis: sorted set of every rate-limit key
    ttl,              \* Redis: absolute expiry of every key, NoTTL if none
    pc,               \* per task: the store command it is about to issue
    key,              \* per task: the `key` argument of its call
    now,              \* per task: the local `now`
    count,            \* per task: the local `count`
    result,           \* per task: what the call returned
    failedAt,         \* per task: the command of this call that failed, if any
    preOldest,        \* per task: lowest score stored for the key when called
    preNewest,        \* per task: highest score stored for the key when called
    preCount,         \* per task: entries of the key with a score in
                      \* [now - window_seconds, +inf) when called
    overlapped,       \* per task: another check on its key ran during the call
    log,              \* per key: <<now, outcome, alone, prompt>> of the
                      \* completed calls (alone: no other call on the key ran
                      \* meanwhile; prompt: it returned in the second it began),
                      \* or NoLog in a specification whose claims read none
    started,          \* number of calls made so far
    failures,         \* number of failed commands so far
    mw,               \* per task: what the rate-limit middleware answered to
                      \* the last request whose check has returned
    ptime,            \* wall clock of the payload service, in ticks
    repoKind,         \* the Repository behind the use cases: "redis" or "mock"
    store,            \* the repository: per hash id, the stored payload
    uc,               \* per task: the use-case call it is running
    issued,           \* number of hash ids issued by HashId::new
    repoFailures      \* number of failed repository operations so far

vars == <<max_requests, window_seconds, clock, zset, ttl, pc, key, now, count,
          result, failedAt, preOldest, preNewest, preCount, overlapped, log, started,
          failures, mw, ptime, repoKind, store, uc, issued, repoFailures>>

\* The variables of the payload service and those of the rate limiter.
payloadVars == <<ptime, repoKind, store, uc, issued, repoFailures>>
limiterVars == <<max_requests, window_seconds, clock, zset, ttl, pc, key, now,
                 count, result, failedAt, preOldest, preNewest, preCount, overlapped,
                 log, started, failures, mw>>

\* ------------------------------------------------------------ the store
NoTTL == -1
NoKey == "-"
NoScore == -1

\* rate_limit_key: format!("rate_limit:{}", key)
RateLimitKey_Shared(k) == <<"rate_limit:", "">>
RateLimitKey(k) == <<"rate_limit:", k>>

RedisKeys == {RateLimitKey(k) : k \in Keys}

\* The member string of a request: format!("req:{}", now)
ReqMember(t) == <<"req:", t>>

Scores(set) == {e.score : e \in set}
MinOf(S) == CHOOSE x \in S : \A y \in S : x <= y
MaxOf(S) == CHOOSE x \in S : \A y \in S : x >= y

\* ZADD key score member: a member already in the set is re-scored, not added
\* a second time.  `at` is when the store executed the command (history).
ZADD_Dropped(set, score, member, t) == set
ZADD(set, score, member, t) ==
    {e \in set : e.member # member}
        \cup {[member |-> member, score |-> score, at |-> t]}

\* ZREMRANGEBYSCORE key min max: both ends are inclusive.
ZREMRANGEBYSCORE_Nothing(set, lo, hi) == set
ZREMRANGEBYSCORE_Exclusive(set, lo, hi) ==
    {e \in set : ~(lo <= e.score /\ e.score < hi)}
ZREMRANGEBYSCORE(set, lo, hi) ==
    {e \in set : ~(lo <= e.score /\ e.score <= hi)}

\* ZCOUNT key min +inf
ZCOUNT(set, lo) == Cardinality({e \in set : e.score >= lo})

\* ZRANGE key 0 0 WITHSCORES: the scores of the first element, none if the
\* set is empty (the code reads only the score).
ZRANGE00(set) == IF set = {} THEN {} ELSE {MinOf(Scores(set))}

\* ------------------------------------------------------ results of a call
None == [kind |-> "None", wait |-> 0]
Ok == [kind |-> "Ok", wait |-> 0]
RedisErr == [kind |-> "Redis", wait |-> 0]
Panic == [kind |-> "Panic", wait |-> 0]
LimitExceeded(w) == [kind |-> "LimitExceeded", wait |-> w]

\* .map_err(|e| RateLimitError::Redis(e.to_string()))? after every command
MapErr_FailOpen(cmd) == Ok
MapErr(cmd) == RedisErr

\* count > self.config.max_requests
OverLimit_Lax(c, m) == c > m + 1
OverLimit(c, m) == c > m

\* window_seconds as u64 - (now - timestamp as u64), then .max(1).  A
\* subtraction that goes below zero panics in a build with overflow checks
\* and wraps in one without: both outcomes are possible.
WrapSub(a, b) == (a - b) % U64Mod
WaitOutcomes_Elapsed(w, n, ts) ==
    {LimitExceeded(IF n - ts > 1 THEN n - ts ELSE 1)}
WaitOutcomes(w, n, ts) ==
    LET wait == WrapSub(w, WrapSub(n, ts))
        val == LimitExceeded(IF wait > 1 THEN wait ELSE 1)
    IN  IF ts > n \/ n - ts > w THEN {Panic, val} ELSE {val}

\* ------------------------------------------- answers of the middleware
\* What RateLimitMiddlewareService::call resolves to: the status of the
\* response (or of the error response), the wait it mentions and whether the
\* wrapped service's future was polled.
\* `check` keeps the outcome of the check the answer followed (history).
NoResponse ==
    [status |-> "none", wait |-> 0, handlerRan |-> FALSE, check |-> "None"]
Forwarding(c) ==
    [status |-> "pending", wait |-> 0, handlerRan |-> FALSE, check |-> c]
Panicked ==
    [status |-> "panicked", wait |-> 0, handlerRan |-> FALSE, check |-> "Panic"]
\* ErrorBadRequest(format!("Rate limit exceeded. Try again in {} seconds", w))
BadRequest(w) ==
    [status |-> "400 Bad Request", wait |-> w, handlerRan |-> FALSE,
     check |-> "LimitExceeded"]
\* fut.await: the wrapped service ran and its result is passed on.
Served(r, c) == [status |-> r, wait |-> 0, handlerRan |-> TRUE, check |-> c]
\* if let Err(e) = limiter.check_rate_limit(..).await { match e { .. } }
MiddlewareDecision_AlwaysForward(res) == Forwarding(res.kind)
MiddlewareDecision_FailClosed(res) ==
    IF res.kind \in {"LimitExceeded", "Redis"} THEN BadRequest(res.wait)
    ELSE IF res.kind = "Panic" THEN Panicked
    ELSE Forwarding(res.kind)
MiddlewareDecision(res) ==
    IF res.kind = "LimitExceeded" THEN BadRequest(res.wait)
    ELSE IF res.kind = "Panic" THEN Panicked
    ELSE Forwarding(res.kind)
\* Results of the wrapped service.
ServiceResults == {"200 OK", "404 Not Found"}

\* ------------------------------------------------------ the payload service
\* Time of the payload service runs in ticks of half a second: DateTime<Utc>
\* values keep their sub-second part, timestamp() drops it.
TicksPerSecond == 2
PEpoch == 2
\* Ticks the payload clock may advance, payloads that may be created and
\* repository operations that may fail.
PayloadTicks == 3
MaxPayloads == 1
MaxRepoFailures == 1
\* Duration::hours(24), scaled down to ticks.
DefaultLifetime == 4

UcProcs == {1, 2}
NoTime == -1
NoHash == "-"
\* HashId::new(): a fresh UUID for every payload.
HashIds == {"h1", "h2"}
NthId(n) == IF n = 1 THEN "h1" ELSE "h2"

\* DateTime::timestamp(): whole seconds.
Timestamp(t) == t \div TicksPerSecond

\* Fields of a CreatePayloadRequest.
Contents == {"", "x"}
NoMime == "None"
MimeStrings == {"text/plain", "invalid/type", "Text Plain"}
ExpiryChoices == {PEpoch - 1, PEpoch + 2}
Requests ==
    [content : Contents, mime_type : {NoMime} \cup MimeStrings,
     expiry_time : {NoTime} \cup ExpiryChoices]
NoRequest == [content |-> "", mime_type |-> NoMime, expiry_time |-> NoTime]

\* MIME_TYPE_REGEX ^[a-z]+/[a-z0-9.+-]+$ on the strings above.
MimeTypeRegexMatches(m) == m \in {"text/plain", "invalid/type"}

\* request.validate(): content of 1 to 1048576 characters, mime_type (when
\* given) matching the regular expression.
Validate(req) ==
    IF req.content = "" THEN "Content cannot be empty"
    ELSE IF req.mime_type # NoMime /\ ~MimeTypeRegexMatches(req.mime_type)
         THEN "Invalid MIME type format"
    ELSE "ok"

\* MimeType::try_from, Display and the serde names of the variants.
MimeTryFrom(m) ==
    CASE m = "text/plain" -> "TextPlain"
      [] m = "text/html" -> "TextHtml"
      [] m = "application/json" -> "ApplicationJson"
      [] m = "image/jpeg" -> "ImageJpeg"
      [] m = "image/png" -> "ImagePng"
      [] m = "image/gif" -> "ImageGif"
      [] OTHER -> "UnsupportedMimeType"

\* Payload::new: the error it returns, if any, and the entity it builds.
PayloadNewError(content, mime) ==
    IF content = "" THEN "EmptyContent"
    ELSE IF mime # NoMime /\ MimeTryFrom(mime) = "UnsupportedMimeType"
         THEN "InvalidMimeType"
    ELSE "none"

PayloadNew(id, content, mime, expiry, t) ==
    [hash_id |-> id,
     content |-> content,
     mime_type |-> IF mime = NoMime THEN "TextPlain" ELSE MimeTryFrom(mime),
     created_at |-> t,
     updated_at |-> t,
     viewed_at |-> NoTime,
     expiry_time |-> IF expiry = NoTime THEN t + DefaultLifetime ELSE expiry]

NoPayload ==
    [hash_id |-> NoHash, content |-> "", mime_type |-> "", created_at |-> NoTime,
     updated_at |-> NoTime, viewed_at |-> NoTime, expiry_time |-> NoTime]

\* Payload::is_expired: Utc::now() > self.expiry_time
IsExpired_AfterGrace(p, t) == t > p.expiry_time + TicksPerSecond
IsExpired(p, t) == t > p.expiry_time

\* Payload::mark_viewed
MarkViewed(p, t) == [p EXCEPT !.viewed_at = t]

\* The repository.  An entry holds the payload and, in Redis, the instant at
\* which the key expires (SET key json EX seconds).
NoEntry == [payload |-> NoPayload, expireAt |-> NoTime]

\* RedisRepository::save computes the time-to-live from whole seconds and
\* stores nothing when it is not positive; MockRepository::save inserts.
RedisTtlSeconds(p, t) == Timestamp(p.expiry_time) - Timestamp(t)

RepoSave(st, p, t, kind) ==
    IF kind = "mock"
    THEN [st EXCEPT ![p.hash_id] = [payload |-> p, expireAt |-> NoTime]]
    ELSE IF RedisTtlSeconds(p, t) > 0
         THEN [st EXCEPT ![p.hash_id] =
                  [payload |-> p,
                   expireAt |-> t + RedisTtlSeconds(p, t) * TicksPerSecond]]
         ELSE st

RepoGet(st, h) == IF h \in HashIds THEN st[h].payload ELSE NoPayload

RepoDelete(st, h) == IF h \in HashIds THEN [st EXCEPT ![h] = NoEntry] ELSE st

\* A use-case call of a task: the operation, the await it is at, its
\* arguments and locals, and what it returned.
IdleCall ==
    [op |-> "none", pc |-> "idle", req |-> NoRequest, hash |-> NoHash,
     payload |-> NoPayload, pending |-> "none", result |-> "none"]

PayloadInit(kinds) ==
    /\ ptime = PEpoch
    /\ repoKind \in kinds
    /\ store = [h \in HashIds |-> NoEntry]
    /\ uc = [t \in UcProcs |-> IdleCall]
    /\ issued = 0
    /\ repoFailures = 0

\* ------------------------------------------------------------------ Init
\* The clock starts late enough for now - window_seconds not to go below 0.
Epoch == 3
NoLog == <<"no history">>

LimiterInit(configs, history) ==
    /\ \E c \in configs : max_requests = c[1] /\ window_seconds = c[2]
    /\ clock = Epoch
    /\ zset = [r \in RedisKeys |-> {}]
    /\ ttl = [r \in RedisKeys |-> NoTTL]
    /\ pc = [p \in Procs |-> "idle"]
    /\ key = [p \in Procs |-> NoKey]
    /\ now = [p \in Procs |-> 0]
    /\ count = [p \in Procs |-> 0]
    /\ result = [p \in Procs |-> None]
    /\ failedAt = [p \in Procs |-> "none"]
    /\ preOldest = [p \in Procs |-> NoScore]
    /\ preNewest = [p \in Procs |-> NoScore]
    /\ preCount = [p \in Procs |-> 0]
    /\ overlapped = [p \in Procs |-> FALSE]
    /\ log = IF history THEN [k \in Keys |-> <<>>] ELSE NoLog
    /\ started = 0
    /\ failures = 0
    /\ mw = [p \in Procs |-> NoResponse]

InitWith(configs, history) ==
    LimiterInit(configs, history) /\ PayloadInit({"redis"})

\* --------------------------------------------------------------- actions
Running(p) == pc[p] \notin {"idle", "done"}

\* Tasks are interchangeable: a new call takes the first free one.
FirstFree(p) == pc[p] = "idle" /\ \A q \in Procs : q < p => pc[q] # "idle"

Logged(k, t, res, alone, prompt) ==
    IF log = NoLog THEN log
    ELSE [log EXCEPT ![k] = Append(@, <<t, res.kind, alone, prompt>>)]

\* The call returns `res`.
Finish(p, res) ==
    /\ pc' = [pc EXCEPT ![p] = "done"]
    /\ result' = [result EXCEPT ![p] = res]
    /\ log' = Logged(key[p], now[p], res, ~overlapped[p], clock = now[p])

\* get_conn succeeds; now and window_start are computed.
Start(p, k, alone, budget) ==
    /\ FirstFree(p)
    /\ started < budget
    /\ alone => \A q \in Procs : pc[q] = "idle"
    /\ started' = started + 1
    /\ pc' = [pc EXCEPT ![p] = "zadd"]
    /\ key' = [key EXCEPT ![p] = k]
    /\ now' = [now EXCEPT ![p] = clock]
    /\ LET S == Scores(zset[RateLimitKey(k)])
       IN  /\ preOldest' = [preOldest EXCEPT ![p] =
                                IF S = {} THEN NoScore ELSE MinOf(S)]
           /\ preNewest' = [preNewest EXCEPT ![p] =
                                IF S = {} THEN NoScore ELSE MaxOf(S)]
    /\ preCount' = [preCount EXCEPT ![p] =
            ZCOUNT(zset[RateLimitKey(k)], clock - window_seconds)]
    /\ overlapped' = [q \in Procs |->
            IF q = p THEN \E r \in Procs : Running(r) /\ key[r] = k
            ELSE overlapped[q] \/ (Running(q) /\ key[q] = k)]
    /\ UNCHANGED <<payloadVars, mw, max_requests, window_seconds, clock, zset, ttl, count,
                   result, failedAt, log, failures>>

\* get_conn fails: the call returns before touching the store.
GetConnFail(p, k) ==
    /\ FirstFree(p)
    /\ started < MaxChecks
    /\ failures < MaxFailures
    /\ started' = started + 1
    /\ failures' = failures + 1
    /\ key' = [key EXCEPT ![p] = k]
    /\ now' = [now EXCEPT ![p] = clock]
    /\ failedAt' = [failedAt EXCEPT ![p] = "get_conn"]
    /\ pc' = [pc EXCEPT ![p] = "done"]
    /\ result' = [result EXCEPT ![p] = MapErr("get_conn")]
    /\ log' = Logged(k, clock, MapErr("get_conn"), TRUE, TRUE)
    /\ UNCHANGED <<payloadVars, mw, max_requests, window_seconds, clock, zset, ttl, count,
                   preOldest, preNewest, preCount, overlapped>>

\* The store commands of one check, in the order of the function body: the
\* command issued after `cmd` has been answered.
NextCommand_CountBeforePurge(cmd) ==
    CASE cmd = "zadd" -> "expire"
      [] cmd = "expire" -> "zcount"
      [] cmd = "zrem" -> "zcount"
NextCommand(cmd) ==
    CASE cmd = "zadd" -> "expire"
      [] cmd = "expire" -> "zrem"
      [] cmd = "zrem" -> "zcount"

WindowStart_Now(p) == now[p]
WindowStart(p) == now[p] - window_seconds

\* ZADD redis_key now "req:{now}"
ZAdd(p) ==
    /\ pc[p] = "zadd"
    /\ zset' = [zset EXCEPT ![RateLimitKey(key[p])] =
                    ZADD(@, now[p], ReqMember(now[p]),
                         IF log = NoLog THEN 0 ELSE clock)]
    /\ pc' = [pc EXCEPT ![p] = NextCommand("zadd")]
    /\ UNCHANGED <<payloadVars, mw, max_requests, window_seconds, clock, ttl, key, now, count,
                   result, failedAt, preOldest, preNewest, preCount, overlapped, log,
                   started, failures>>

\* EXPIRE redis_key (window_seconds * 2): no effect on a key that is absent.
ExpireSeconds_Triple(w) == w * 3
ExpireSeconds(w) == w * 2

Expire_OnlyIfNew(p) ==
    /\ pc[p] = "expire"
    /\ ttl' = [ttl EXCEPT ![RateLimitKey(key[p])] =
                    IF zset[RateLimitKey(key[p])] = {} \/ @ # NoTTL THEN @
                    ELSE clock + ExpireSeconds(window_seconds)]
    /\ pc' = [pc EXCEPT ![p] = "zrem"]
    /\ UNCHANGED <<payloadVars, mw, max_requests, window_seconds, clock, zset, key, now, count,
                   result, failedAt, preOldest, preNewest, preCount, overlapped, log,
                   started, failures>>

Expire(p) ==
    /\ pc[p] = "expire"
    /\ ttl' = [ttl EXCEPT ![RateLimitKey(key[p])] =
                    IF zset[RateLimitKey(key[p])] = {} THEN @
                    ELSE clock + ExpireSeconds(window_seconds)]
    /\ pc' = [pc EXCEPT ![p] = NextCommand("expire")]
    /\ UNCHANGED <<payloadVars, mw, max_requests, window_seconds, clock, zset, key, now, count,
                   result, failedAt, preOldest, preNewest, preCount, overlapped, log,
                   started, failures>>

\* ZREMRANGEBYSCORE redis_key 0 window_start; Redis deletes a key whose set
\* became empty, and its expiry with it.
ZRemRangeByScore(p) ==
    LET r == RateLimitKey(key[p])
        left == ZREMRANGEBYSCORE(zset[r], 0, WindowStart(p))
    IN  /\ pc[p] = "zrem"
        /\ zset' = [zset EXCEPT ![r] = left]
        /\ ttl' = [ttl EXCEPT ![r] = IF left = {} THEN NoTTL ELSE @]
        /\ pc' = [pc EXCEPT ![p] = NextCommand("zrem")]
        /\ UNCHANGED <<payloadVars, mw, max_requests, window_seconds, clock, key, now, count,
                       result, failedAt, preOldest, preNewest, preCount, overlapped,
                       log, started, failures>>

\* ZCOUNT redis_key window_start +inf, then the decision.
ZCount(p) ==
    LET c == ZCOUNT(zset[RateLimitKey(key[p])], WindowStart(p))
    IN  /\ pc[p] = "zcount"
        /\ count' = [count EXCEPT ![p] = c]
        /\ IF OverLimit(c, max_requests)
           THEN /\ pc' = [pc EXCEPT ![p] = "zrange"]
                /\ UNCHANGED <<payloadVars, mw, result, log>>
           ELSE Finish(p, Ok)
        /\ UNCHANGED <<payloadVars, mw, max_requests, window_seconds, clock, zset, ttl, key,
                       now, failedAt, preOldest, preNewest, preCount, overlapped,
                       started, failures>>

\* Fallback when ZRANGE returned nothing: window_seconds as u64.
FallbackWait_Minimum(w) == 1
FallbackWait(w) == w

ZRange_ForgetsDenied(p) ==
    LET oldest == ZRANGE00(zset[RateLimitKey(key[p])])
    IN  /\ pc[p] = "zrange"
        /\ zset' = [zset EXCEPT ![RateLimitKey(key[p])] =
                        {e \in @ : e.member # ReqMember(now[p])}]
        /\ IF oldest = {}
           THEN Finish(p, LimitExceeded(FallbackWait(window_seconds)))
           ELSE \E ts \in oldest :
                    \E res \in WaitOutcomes(window_seconds, now[p], ts) :
                        Finish(p, res)
        /\ UNCHANGED <<payloadVars, mw, max_requests, window_seconds, clock, ttl, key,
                       now, count, failedAt, preOldest, preNewest, preCount, overlapped,
                       started, failures>>

\* ZRANGE redis_key 0 0 WITHSCORES, then the wait time.
ZRange(p) ==
    LET oldest == ZRANGE00(zset[RateLimitKey(key[p])])
    IN  /\ pc[p] = "zrange"
        /\ IF oldest = {}
           THEN Finish(p, LimitExceeded(FallbackWait(window_seconds)))
           ELSE \E ts \in oldest :
                    \E res \in WaitOutcomes(window_seconds, now[p], ts) :
                        Finish(p, res)
        /\ UNCHANGED <<payloadVars, mw, max_requests, window_seconds, clock, zset, ttl, key,
                       now, count, failedAt, preOldest, preNewest, preCount, overlapped,
                       started, failures>>

\* The command the task is waiting for fails (the store did not execute it):
\* the `?` returns the mapped error and no later command is issued.
StoreFail_RollsBack(p) ==
    /\ pc[p] \in {"zadd", "expire", "zrem", "zcount", "zrange"}
    /\ failures < MaxFailures
    /\ failures' = failures + 1
    /\ failedAt' = [failedAt EXCEPT ![p] = pc[p]]
    /\ Finish(p, MapErr(pc[p]))
    /\ zset' = [zset EXCEPT ![RateLimitKey(key[p])] =
                    {e \in @ : e.member # ReqMember(now[p])}]
    /\ UNCHANGED <<payloadVars, mw, max_requests, window_seconds, clock, ttl, key, now,
                   count, preOldest, preNewest, preCount, overlapped, started>>

StoreFail(p) ==
    /\ pc[p] \in {"zadd", "expire", "zrem", "zcount", "zrange"}
    /\ failures < MaxFailures
    /\ failures' = failures + 1
    /\ failedAt' = [failedAt EXCEPT ![p] = pc[p]]
    /\ Finish(p, MapErr(pc[p]))
    /\ UNCHANGED <<payloadVars, mw, max_requests, window_seconds, clock, zset, ttl, key, now,
                   count, preOldest, preNewest, preCount, overlapped, started>>

\* The caller has consumed the result; the task is free for another call.
Return(p) ==
    /\ pc[p] = "done"
    /\ pc' = [pc EXCEPT ![p] = "idle"]
    /\ key' = [key EXCEPT ![p] = NoKey]
    /\ now' = [now EXCEPT ![p] = 0]
    /\ count' = [count EXCEPT ![p] = 0]
    /\ result' = [result EXCEPT ![p] = None]
    /\ failedAt' = [failedAt EXCEPT ![p] = "none"]
    /\ preOldest' = [preOldest EXCEPT ![p] = NoScore]
    /\ preNewest' = [preNewest EXCEPT ![p] = NoScore]
    /\ preCount' = [preCount EXCEPT ![p] = 0]
    /\ overlapped' = [overlapped EXCEPT ![p] = FALSE]
    /\ UNCHANGED <<payloadVars, mw, max_requests, window_seconds, clock, zset, ttl, log,
                   started, failures>>

\* One second passes; Redis removes every key whose expiry has been reached.
Expired(r, t) == ttl[r] # NoTTL /\ ttl[r] <= t

Tick(budget) ==
    /\ clock < Epoch + budget
    /\ clock' = clock + 1
    /\ zset' = [r \in RedisKeys |-> IF Expired(r, clock + 1) THEN {} ELSE zset[r]]
    /\ ttl' = [r \in RedisKeys |-> IF Expired(r, clock + 1) THEN NoTTL ELSE ttl[r]]
    /\ UNCHANGED <<payloadVars, mw, max_requests, window_seconds, pc, key, now, count, result,
                   failedAt, preOldest, preNewest, preCount, overlapped, log, started,
                   failures>>

Step(p) ==
    \/ ZAdd(p)
    \/ Expire(p)
    \/ ZRemRangeByScore(p)
    \/ ZCount(p)
    \/ ZRange(p)
    \/ Return(p)

\* -------------------------------------------------------- specifications
\* Concurrent callers on any key, store failures, every small configuration.
Init == InitWith((0..MaxMaxRequests) \X (1..MaxWindow), FALSE)

Next ==
    \/ \E p \in Procs : \E k \in Keys : Start(p, k, FALSE, MaxChecks)
    \/ \E p \in Procs : \E k \in Keys : GetConnFail(p, k)
    \/ \E p \in Procs : Step(p)
    \/ \E p \in Procs : StoreFail(p)
    \/ Tick(MaxTicks)

Spec == Init /\ [][Next]_vars

\* One call at a time, no store failure; the history of the calls is kept.
SeqInit == InitWith((0..MaxMaxRequests) \X (1..MaxWindow), TRUE)

SeqNext ==
    \/ \E p \in Procs : \E k \in Keys : Start(p, k, TRUE, MaxChecks)
    \/ \E p \in Procs : Step(p)
    \/ Tick(MaxTicks)

SeqSpec == SeqInit /\ [][SeqNext]_vars

\* Concurrent calls of one client, no store failure, with history, under the
\* max_requests of the tests (2) and a window of 3 seconds.
RaceConfigs == {<<2, 3>>}
RaceInit == InitWith(RaceConfigs, TRUE)

RaceNext ==
    \/ \E p \in Procs : Start(p, "A", FALSE, RaceChecks)
    \/ \E p \in Procs : Step(p)
    \/ Tick(RaceTicks)

RaceSpec == RaceInit /\ [][RaceNext]_vars

\* One client calling now and then over several windows, one call at a time,
\* no store failure, with history.
LongConfigs == {<<1, 3>>}
LongInit == InitWith(LongConfigs, TRUE)

LongNext ==
    \/ \E p \in Procs : Start(p, "A", TRUE, LongChecks)
    \/ \E p \in Procs : Step(p)
    \/ Tick(LongTicks)

LongSpec == LongInit /\ [][LongNext]_vars

\* A store that may stop answering.  RedisRepository::new builds the pool from
\* config.url alone: connection_timeout and pool_max_size are never read, so
\* neither pool.get() nor query_async is bounded by a timeout and a task whose
\* command gets no answer (or whose get_conn finds every pooled connection
\* held) stays suspended at its await.
Unanswered(p) ==
    /\ pc[p] \in {"zadd", "expire", "zrem", "zcount", "zrange"}
    /\ pc' = [pc EXCEPT ![p] = "hung"]
    /\ UNCHANGED <<payloadVars, mw, max_requests, window_seconds, clock, zset, ttl, key, now,
                   count, result, failedAt, preOldest, preNewest, preCount, overlapped,
                   log, started, failures>>

PoolExhausted(p, k) ==
    /\ FirstFree(p)
    /\ started < HangChecks
    /\ started' = started + 1
    /\ key' = [key EXCEPT ![p] = k]
    /\ pc' = [pc EXCEPT ![p] = "hung"]
    /\ UNCHANGED <<payloadVars, mw, max_requests, window_seconds, clock, zset, ttl, now, count,
                   result, failedAt, preOldest, preNewest, preCount, overlapped, log,
                   failures>>

HangConfigs == {<<1, 1>>}
HangInit == InitWith(HangConfigs, FALSE)

HangNext ==
    \/ \E p \in Procs : Start(p, "A", FALSE, HangChecks)
    \/ \E p \in Procs : PoolExhausted(p, "A")
    \/ \E p \in Procs : Step(p)
    \/ \E p \in Procs : StoreFail(p)
    \/ \E p \in Procs : Unanswered(p)
    \/ Tick(HangTicks)

\* The runtime keeps polling a task whose command has been answered.
HangSpec ==
    HangInit /\ [][HangNext]_vars /\ \A p \in Procs : WF_vars(Step(p))

\* The rate-limit middleware around the check.  call() creates the wrapped
\* service's future first and polls it only after the check has returned
\* something other than LimitExceeded.
CheckStep(p) ==
    \/ ZAdd(p)
    \/ Expire(p)
    \/ ZRemRangeByScore(p)
    \/ ZCount(p)
    \/ ZRange(p)

\* The check has returned: reject with 400, or go on to the wrapped service.
Respond(p) ==
    /\ pc[p] = "done"
    /\ mw' = [mw EXCEPT ![p] = MiddlewareDecision(result[p])]
    /\ pc' = [pc EXCEPT ![p] =
                  IF MiddlewareDecision(result[p]).status = "pending"
                  THEN "service" ELSE "idle"]
    /\ key' = [key EXCEPT ![p] = NoKey]
    /\ now' = [now EXCEPT ![p] = 0]
    /\ count' = [count EXCEPT ![p] = 0]
    /\ result' = [result EXCEPT ![p] = None]
    /\ failedAt' = [failedAt EXCEPT ![p] = "none"]
    /\ preOldest' = [preOldest EXCEPT ![p] = NoScore]
    /\ preNewest' = [preNewest EXCEPT ![p] = NoScore]
    /\ preCount' = [preCount EXCEPT ![p] = 0]
    /\ overlapped' = [overlapped EXCEPT ![p] = FALSE]
    /\ UNCHANGED <<payloadVars, max_requests, window_seconds, clock, zset, ttl, log,
                   started, failures>>

\* fut.await: the wrapped service handles the request.
Handler(p) ==
    /\ pc[p] = "service"
    /\ \E r \in ServiceResults :
          mw' = [mw EXCEPT ![p] = Served(r, mw[p].check)]
    /\ pc' = [pc EXCEPT ![p] = "idle"]
    /\ UNCHANGED <<payloadVars, max_requests, window_seconds, clock, zset, ttl, key, now,
                   count, result, failedAt, preOldest, preNewest, preCount, overlapped,
                   log, started, failures>>

MwTicks == 2
MwConfigs == {<<1, 2>>}
MwInit == InitWith(MwConfigs, FALSE)

MwNext ==
    \/ \E p \in Procs : Start(p, "A", FALSE, MaxChecks)
    \/ \E p \in Procs : GetConnFail(p, "A")
    \/ \E p \in Procs : CheckStep(p)
    \/ \E p \in Procs : StoreFail(p)
    \/ \E p \in Procs : Respond(p)
    \/ \E p \in Procs : Handler(p)
    \/ Tick(MwTicks)

MwSpec == MwInit /\ [][MwNext]_vars

\* ------------------------------------------- actions of the payload service
\* Tasks are interchangeable: a new call takes the first free one.
FirstFreeUc(t) ==
    uc[t].pc = "idle" /\ \A q \in UcProcs : q < t => uc[q].pc # "idle"

UcDone(t, res) ==
    uc' = [uc EXCEPT ![t].pc = "done", ![t].result = res]

\* The `?` after request.validate() and Payload::new: an error is returned
\* at once, before the repository is touched.
EarlyReturn_Deferred(err) == FALSE
EarlyReturn(err) == err # "none"

\* CreatePayloadUseCaseImpl::execute up to its first await: validate the
\* request, build the entity, then call repository.save.
CreateError(req) ==
    IF Validate(req) # "ok" THEN "ValidationError"
    ELSE IF PayloadNewError(req.content, req.mime_type) # "none"
         THEN "DomainError"
    ELSE "none"

CreateExecute(t, req) ==
    /\ FirstFreeUc(t)
    /\ IF EarlyReturn(CreateError(req))
       THEN /\ uc' = [uc EXCEPT ![t] =
                        [IdleCall EXCEPT !.op = "create", !.pc = "done",
                                         !.req = req,
                                         !.result = CreateError(req)]]
            /\ UNCHANGED issued
       ELSE /\ issued < MaxPayloads
            /\ issued' = issued + 1
            /\ uc' = [uc EXCEPT ![t] =
                        [IdleCall EXCEPT
                            !.op = "create", !.pc = "save", !.req = req,
                            !.hash = NthId(issued + 1),
                            !.pending = CreateError(req),
                            !.payload = PayloadNew(NthId(issued + 1),
                                                   req.content, req.mime_type,
                                                   req.expiry_time, ptime)]]
    /\ UNCHANGED <<limiterVars, ptime, repoKind, store, repoFailures>>

\* GetPayloadUseCaseImpl::execute up to its first await.
GetExecute(t, h) ==
    /\ FirstFreeUc(t)
    /\ uc' = [uc EXCEPT ![t] =
                 [IdleCall EXCEPT !.op = "get", !.pc = "get", !.hash = h]]
    /\ UNCHANGED <<limiterVars, ptime, repoKind, store, issued, repoFailures>>

\* repository.get has answered: NotFound, or the expiry check and the next
\* repository call (delete of an expired payload, save of a viewed one).
GetStep(t) ==
    LET p == RepoGet(store, uc[t].hash)
    IN  /\ uc[t].pc = "get"
        /\ IF p = NoPayload THEN UcDone(t, "NotFound")
           ELSE IF IsExpired(p, ptime)
                THEN uc' = [uc EXCEPT ![t].pc = "delete", ![t].payload = p]
                ELSE uc' = [uc EXCEPT ![t].pc = "save",
                                      ![t].payload = MarkViewed(p, ptime)]
        /\ UNCHANGED <<limiterVars, ptime, repoKind, store, issued,
                       repoFailures>>

\* repository.delete has answered: the call returns Expired.
DeleteStep(t) ==
    /\ uc[t].pc = "delete"
    /\ store' = RepoDelete(store, uc[t].hash)
    /\ UcDone(t, "Expired")
    /\ UNCHANGED <<limiterVars, ptime, repoKind, issued, repoFailures>>

\* repository.save has answered: the call returns its response.
SaveStep(t) ==
    /\ uc[t].pc = "save"
    /\ store' = RepoSave(store, uc[t].payload, ptime, repoKind)
    /\ UcDone(t, IF uc[t].pending # "none" THEN uc[t].pending ELSE "Ok")
    /\ UNCHANGED <<limiterVars, ptime, repoKind, issued, repoFailures>>

\* The repository call the task is waiting for fails.
RepoFail(t) ==
    /\ uc[t].pc \in {"get", "delete", "save", "del"}
    /\ repoFailures < MaxRepoFailures
    /\ repoFailures' = repoFailures + 1
    /\ UcDone(t, "RepositoryError")
    /\ UNCHANGED <<limiterVars, ptime, repoKind, store, issued>>

\* The caller has consumed the result.
UcReturn(t) ==
    /\ uc[t].pc = "done"
    /\ uc' = [uc EXCEPT ![t] = IdleCall]
    /\ UNCHANGED <<limiterVars, ptime, repoKind, store, issued, repoFailures>>

\* Half a second passes; Redis removes the keys whose expiry is reached.
KeyExpired(e, t) == e.expireAt # NoTime /\ e.expireAt <= t

PTick ==
    /\ ptime < PEpoch + PayloadTicks
    /\ ptime' = ptime + 1
    /\ store' = [h \in HashIds |->
                    IF KeyExpired(store[h], ptime + 1) THEN NoEntry
                    ELSE store[h]]
    /\ UNCHANGED <<limiterVars, repoKind, uc, issued, repoFailures>>

\* The use cases over either repository, concurrent callers.
PayloadConfigs == {<<1, 1>>}
PayloadSpecInit ==
    LimiterInit(PayloadConfigs, FALSE) /\ PayloadInit({"redis", "mock"})

PayloadNext ==
    \/ \E t \in UcProcs : \E req \in Requests : CreateExecute(t, req)
    \/ \E t \in UcProcs : \E h \in HashIds : GetExecute(t, h)
    \/ \E t \in UcProcs : GetStep(t)
    \/ \E t \in UcProcs : DeleteStep(t)
    \/ \E t \in UcProcs : SaveStep(t)
    \/ \E t \in UcProcs : RepoFail(t)
    \/ \E t \in UcProcs : UcReturn(t)
    \/ PTick

PayloadSpec == PayloadSpecInit /\ [][PayloadNext]_vars

\* Deleting a payload by id (DELETE /api/v1/payloads/{id}): delete_payload
\* awaits DeletePayloadUseCaseImpl::delete(&id), which comes down to
\* repository.delete on that id (DEL key in Redis, remove in the mock).
DeleteExecute(t, h) ==
    /\ FirstFreeUc(t)
    /\ uc' = [uc EXCEPT ![t] =
                 [IdleCall EXCEPT !.op = "delete", !.pc = "del", !.hash = h]]
    /\ UNCHANGED <<limiterVars, ptime, repoKind, store, issued, repoFailures>>

\* repository.delete has answered: the payload is gone, 204 No Content.
\* The call's `payload` keeps what the delete removed (history).
DelStep(t) ==
    /\ uc[t].pc = "del"
    /\ store' = RepoDelete(store, uc[t].hash)
    /\ uc' = [uc EXCEPT ![t].pc = "done", ![t].result = "Ok",
                        ![t].payload = RepoGet(store, uc[t].hash)]
    /\ UNCHANGED <<limiterVars, ptime, repoKind, issued, repoFailures>>

\* The use cases with deletion by id, over either repository.
DeleteNext ==
    \/ PayloadNext
    \/ \E t \in UcProcs : \E h \in HashIds : DeleteExecute(t, h)
    \/ \E t \in UcProcs : DelStep(t)

DeleteSpec == PayloadSpecInit /\ [][DeleteNext]_vars

\* ------------------------------------------------------------------ claims
Times == Epoch..(Epoch + MaxTicks + RaceTicks + LongTicks + HangTicks + MwTicks)

Done(p) == pc[p] = "done"
Denied(p) == Done(p) /\ result[p].kind = "LimitExceeded"
Allowed(p) == Done(p) /\ result[p] = Ok

\* Number of logged calls on k that were allowed with a timestamp in lo..hi.
AllowedIn(k, lo, hi) ==
    Cardinality({i \in 1..Len(log[k]) :
                    log[k][i][2] = "Ok" /\ log[k][i][1] \in lo..hi})

\* The i-th logged call on k ran alone and returned in the second it began.
Undisturbed(k, i) == log[k][i][3] /\ log[k][i][4]

\* C1 (as claimed): of the calls made one after another on a fresh key, all
\* within one window, the first max_requests return Ok and the next one
\* returns LimitExceeded.
C1_FirstNAllowedThenDeny ==
    \A k \in Keys : \A i \in 1..Len(log[k]) :
        (max_requests >= 1 /\ log[k][i][1] - log[k][1][1] < window_seconds)
            => /\ i <= max_requests => log[k][i][2] = "Ok"
               /\ i = max_requests + 1 => log[k][i][2] = "LimitExceeded"

\* C2 (as claimed): with the calls on a key made one at a time (each one
\* returning within the second it began), at most max_requests of them were
\* allowed with a timestamp in [t - window_seconds, t].
C2_AtMostMaxAllowedInWindow ==
    \A k \in Keys :
        (\A i \in 1..Len(log[k]) : Undisturbed(k, i))
            => \A t \in Times :
                   AllowedIn(k, t - window_seconds, t) <= max_requests

\* C3 (as claimed): every LimitExceeded(wait) has 1 <= wait <= window_seconds,
\* also under interleaved checks.
C3_WaitWithinWindow ==
    \A p \in Procs :
        Denied(p) => 1 <= result[p].wait /\ result[p].wait <= window_seconds

\* C4: a call in which the connection or a store command failed returns
\* RateLimitError::Redis, never Ok or LimitExceeded.
C4_FailureReturnsRedisError ==
    \A p \in Procs :
        (Done(p) /\ failedAt[p] # "none") => result[p].kind = "Redis"

C4_Witness ==
    \E p \in Procs :
        Done(p) /\ failedAt[p] = "zrange" /\ result[p].kind = "Redis"

\* C5: a command of a check on one key leaves the entries and the expiry of
\* every other key as they were, and the count it reads is taken from its own
\* key's set alone.
C5_OtherKeysUntouched ==
    [][\A p \in Procs :
          (Running(p) /\ pc'[p] # pc[p]) =>
              /\ \A k \in Keys \ {key[p]} :
                    /\ zset'[RateLimitKey(k)] = zset[RateLimitKey(k)]
                    /\ ttl'[RateLimitKey(k)] = ttl[RateLimitKey(k)]
              /\ pc[p] = "zcount" =>
                    count'[p] <= Cardinality(zset[RateLimitKey(key[p])])]_vars

C5_Witness ==
    \E p \in Procs :
        /\ Denied(p)
        /\ \E k \in Keys \ {key[p]} :
              /\ zset[RateLimitKey(k)] # {}
              /\ zset[RateLimitKey(k)] # zset[RateLimitKey(key[p])]

\* C6 (as claimed): a call made window_seconds or more after the oldest
\* timestamp stored for the key returns Ok.
C6_AllowedAfterOldestAgedOut ==
    \A p \in Procs :
        (/\ Done(p)
         /\ max_requests >= 1
         /\ preOldest[p] # NoScore
         /\ now[p] - preOldest[p] >= window_seconds) => result[p] = Ok

\* C6 (amended): a call made window_seconds or more after the newest
\* timestamp stored for the key (every entry has aged out) returns Ok, for
\* max_requests >= 1 and calls made one at a time without store failure.
C6_AllowedAfterNewestAgedOut ==
    \A p \in Procs :
        (/\ Done(p)
         /\ max_requests >= 1
         /\ preNewest[p] # NoScore
         /\ now[p] - preNewest[p] >= window_seconds) => result[p] = Ok

C6_Witness ==
    \E p \in Procs :
        /\ Allowed(p)
        /\ preNewest[p] # NoScore
        /\ now[p] - preNewest[p] = window_seconds
        /\ count[p] = 1

\* C7 (as claimed): the purge of a check removes exactly the entries with
\* score < now - window_seconds; an entry at now - window_seconds stays.
C7_PurgeKeepsBoundary ==
    [][\A p \in Procs :
          (pc[p] = "zrem" /\ pc'[p] = "zcount") =>
              zset'[RateLimitKey(key[p])] =
                  {e \in zset[RateLimitKey(key[p])] :
                        e.score >= now[p] - window_seconds}]_vars

\* C8 (as claimed): the ZADD of every check adds one more member to the set
\* of its key.
C8_EveryCheckAddsAMember ==
    [][\A p \in Procs :
          (pc[p] = "zadd" /\ pc'[p] = "expire") =>
              Cardinality(zset'[RateLimitKey(key[p])]) =
                  Cardinality(zset[RateLimitKey(key[p])]) + 1]_vars

\* C9: calls that run one after another (each within its second, in distinct
\* seconds) never leave more than max_requests allowed calls in a window
\* (t - window_seconds, t]; two interleaved calls can (the witness): both
\* return Ok and the window then holds max_requests + 1 allowed calls.
DistinctSeconds(k) ==
    \A i, j \in 1..Len(log[k]) : i # j => log[k][i][1] # log[k][j][1]

C9_OneAfterAnotherWithinQuota ==
    \A k \in Keys :
        (DistinctSeconds(k) /\ \A i \in 1..Len(log[k]) : Undisturbed(k, i))
            => \A t \in Times :
                   AllowedIn(k, t - window_seconds + 1, t) <= max_requests

C9_Witness ==
    \E k \in Keys : \E i, j \in 1..Len(log[k]) :
        /\ i < j
        /\ \A p \in Procs : ~Running(p)
        /\ DistinctSeconds(k)
        /\ log[k][i][2] = "Ok" /\ ~log[k][i][3]
        /\ log[k][j][2] = "Ok" /\ ~log[k][j][3]
        /\ \A h \in 1..Len(log[k]) : h \notin {i, j} => Undisturbed(k, h)
        /\ \E t \in {log[k][i][1], log[k][j][1]} :
               AllowedIn(k, t - window_seconds + 1, t) = max_requests + 1

\* Every logged call ran undisturbed and no call is in progress.
Quiet ==
    /\ \A p \in Procs : pc[p] = "idle"
    /\ \A k \in Keys : \A i \in 1..Len(log[k]) : log[k][i][3] /\ log[k][i][4]

LastCheckAt(k, t) ==
    /\ Len(log[k]) > 0
    /\ \A p \in Procs : ~(Running(p) /\ key[p] = k)
    /\ LET last == log[k][Len(log[k])]
       IN  /\ last[1] = t
           /\ last[2] \in {"Ok", "LimitExceeded"}
           /\ last[4]

\* C11: after a check at time t that returned Ok or LimitExceeded, and until
\* the next check, the key is in the store with its expiry at
\* t + 2 x window_seconds, and it is gone from then on.
C11_KeyExpiresTwoWindowsAfterLastCheck ==
    \A k \in Keys : \A t \in Times :
        LastCheckAt(k, t) =>
            IF clock < t + 2 * window_seconds
            THEN /\ zset[RateLimitKey(k)] # {}
                 /\ ttl[RateLimitKey(k)] = t + 2 * window_seconds
            ELSE /\ zset[RateLimitKey(k)] = {}
                 /\ ttl[RateLimitKey(k)] = NoTTL

C11_Witness ==
    \E k \in Keys : \E t \in Times :
        /\ LastCheckAt(k, t)
        /\ Len(log[k]) >= 2
        /\ log[k][Len(log[k])][2] = "LimitExceeded"
        /\ clock = t + 2 * window_seconds
        /\ zset[RateLimitKey(k)] = {}

\* The call of task p has returned in the second it began (in a specification
\* of calls made one at a time).
ReturnedPromptly(p) == Done(p) /\ clock = now[p]

\* C12 (as claimed): with max_requests = 0 every check returns
\* LimitExceeded(window_seconds).
C12_ZeroQuotaWaitIsWindow ==
    \A p \in Procs :
        (ReturnedPromptly(p) /\ max_requests = 0)
            => result[p] = LimitExceeded(window_seconds)

\* C12 (amended): with max_requests = 0 every check returns LimitExceeded
\* with 1 <= wait <= window_seconds; the wait is window_seconds when the key
\* held no entry of an earlier second of the window.
C12_ZeroQuotaDeniesWaitFromOldest ==
    \A p \in Procs :
        (ReturnedPromptly(p) /\ max_requests = 0) =>
            /\ result[p].kind = "LimitExceeded"
            /\ 1 <= result[p].wait /\ result[p].wait <= window_seconds
            /\ (\/ preNewest[p] = NoScore
                \/ preNewest[p] <= now[p] - window_seconds
                \/ preOldest[p] = now[p])
                  => result[p].wait = window_seconds

C12_Witness ==
    \E p \in Procs :
        /\ ReturnedPromptly(p) /\ max_requests = 0 /\ window_seconds = 2
        /\ preNewest[p] # NoScore
        /\ preNewest[p] = now[p] - window_seconds
        /\ result[p] = LimitExceeded(window_seconds)

\* C13: a check on a key that is not in the store (never used, or expired)
\* returns Ok when max_requests >= 1, and the key then holds the new entry
\* alone, with its expiry set.
C13_MissingKeyIsEmptyWindow ==
    \A p \in Procs :
        (ReturnedPromptly(p) /\ max_requests >= 1 /\ preOldest[p] = NoScore) =>
            /\ result[p] = Ok
            /\ Cardinality(zset[RateLimitKey(key[p])]) = 1
            /\ \A e \in zset[RateLimitKey(key[p])] :
                   e.score = now[p] /\ e.member = ReqMember(now[p])
            /\ ttl[RateLimitKey(key[p])] = now[p] + 2 * window_seconds

\* The key had been used before and has expired since.
C13_Witness ==
    \E p \in Procs :
        /\ ReturnedPromptly(p) /\ max_requests >= 1 /\ preOldest[p] = NoScore
        /\ Len(log[key[p]]) >= 2
        /\ result[p] = Ok
        /\ zset[RateLimitKey(key[p])] # {}

\* C14 (as claimed): every check_rate_limit call eventually returns, also
\* when the store stops answering or the pool has no free connection.
C14_EveryCallReturns ==
    \A p \in Procs : Running(p) ~> ~Running(p)

C16_StoreErrorFailsOpen ==
    [][\A p \in Procs :
          /\ (Done(p) /\ result[p].kind = "Redis" /\ pc'[p] # pc[p]) =>
                 pc'[p] = "service" /\ mw'[p] = Forwarding("Redis")
          /\ (pc[p] = "service" /\ pc'[p] # "service") =>
                 /\ mw'[p].handlerRan
                 /\ mw'[p].status \in ServiceResults
                 /\ mw'[p].check = mw[p].check]_vars

C16_Witness ==
    \E p \in Procs :
        /\ pc[p] = "idle"
        /\ mw[p] = Served("404 Not Found", "Redis")

\* C17: GetPayloadUseCaseImpl::execute on a stored payload whose expiry_time
\* is in the past goes on to delete it without saving or marking it viewed,
\* and (unless the repository fails) returns Expired with the hash id gone
\* from the repository.
C17_ExpiredPayloadDeletedOnGet ==
    [][\A t \in UcProcs :
          /\ (/\ uc[t].pc = "get" /\ uc'[t].pc # "get"
              /\ uc'[t].result # "RepositoryError"
              /\ RepoGet(store, uc[t].hash) # NoPayload
              /\ ptime > RepoGet(store, uc[t].hash).expiry_time) =>
                 /\ uc'[t].pc = "delete"
                 /\ uc'[t].payload.viewed_at =
                        RepoGet(store, uc[t].hash).viewed_at
                 /\ store' = store
          /\ (/\ uc[t].pc = "delete" /\ uc'[t].pc # "delete"
              /\ uc'[t].result # "RepositoryError") =>
                 /\ uc'[t].result = "Expired"
                 /\ store'[uc[t].hash] = NoEntry]_vars

C17_Witness ==
    \E t \in UcProcs :
        /\ uc[t].op = "get" /\ uc[t].pc = "done" /\ uc[t].result = "Expired"
        /\ uc[t].payload.expiry_time < ptime
        /\ store[uc[t].hash] = NoEntry

\* C18 (as claimed): RedisRepository::get never returns a payload at or
\* after its expiry_time.
C18_RedisNeverReturnsExpired ==
    [][\A t \in UcProcs :
          (/\ repoKind = "redis"
           /\ uc[t].pc = "get" /\ uc'[t].pc \in {"save", "delete"}) =>
              ptime < uc'[t].payload.expiry_time]_vars

\* C19: a CreatePayloadUseCaseImpl::execute call that returns a validation or
\* domain error returns before any repository call: the repository holds
\* what it held.
C19_FailedCreateSavesNothing ==
    [][\A t \in UcProcs :
          (/\ uc'[t].op = "create" /\ uc'[t].pc = "done" /\ uc[t].pc # "done"
           /\ uc'[t].result \in {"ValidationError", "DomainError"}) =>
              /\ uc[t].pc = "idle"
              /\ store' = store]_vars

C19_Witness ==
    \E t \in UcProcs :
        /\ uc[t].op = "create" /\ uc[t].pc = "done"
        /\ uc[t].result = "DomainError"
        /\ uc[t].req.mime_type = "invalid/type"
        /\ \E h \in HashIds : store[h] # NoEntry
        /\ \A h \in HashIds : store[h].payload.mime_type # "UnsupportedMimeType"

\* C20 (as claimed): a create request with empty content returns
\* DomainError, and so does one whose MIME type is well-formed but
\* unsupported.
C20_EmptyContentIsDomainError ==
    \A t \in UcProcs :
        (uc[t].op = "create" /\ uc[t].pc = "done") =>
            /\ uc[t].req.content = "" => uc[t].result = "DomainError"
            /\ (/\ uc[t].req.content # ""
                /\ uc[t].req.mime_type # NoMime
                /\ MimeTypeRegexMatches(uc[t].req.mime_type)
                /\ MimeTryFrom(uc[t].req.mime_type) = "UnsupportedMimeType")
                  => uc[t].result = "DomainError"

\* C21 (as claimed): a check returns Ok exactly when the count it read is
\* <= max_requests and LimitExceeded exactly when it is greater; a check on a
\* key that held max_requests entries with a score in
\* [now - window_seconds, +inf) when it was called returns LimitExceeded.
C21_FullWindowIsDenied ==
    \A p \in Procs :
        (ReturnedPromptly(p) /\ result[p].kind \in {"Ok", "LimitExceeded"}) =>
            /\ result[p] = Ok <=> count[p] <= max_requests
            /\ Denied(p) <=> count[p] > max_requests
            /\ preCount[p] = max_requests => Denied(p)

\* C22 (as claimed): a check that returns LimitExceeded after its ZRANGE found
\* an entry returns the wait max(1, window_seconds - (now - t_oldest)), with
\* t_oldest the lowest score of the key's set when ZRANGE ran.
C22_WaitFromOldestEntry ==
    [][\A p \in Procs :
          (/\ pc[p] = "zrange"
           /\ zset[RateLimitKey(key[p])] # {}
           /\ pc'[p] = "done"
           /\ result'[p].kind = "LimitExceeded") =>
              LET t_oldest == MinOf(Scores(zset[RateLimitKey(key[p])]))
                  wait == window_seconds - (now[p] - t_oldest)
              IN  result'[p].wait = IF wait > 1 THEN wait ELSE 1]_vars

\* C23: a check that read a count above max_requests and whose ZRANGE then
\* finds the key's set empty (the key expired in between) returns
\* LimitExceeded(window_seconds).
C23_EmptyLookupFallsBackToWindow ==
    [][\A p \in Procs :
          (/\ pc[p] = "zrange"
           /\ zset[RateLimitKey(key[p])] = {}
           /\ pc'[p] = "done"
           /\ failedAt'[p] = "none") =>
              /\ count[p] > max_requests
              /\ result'[p] = LimitExceeded(window_seconds)]_vars

\* The key of the denied check expired while the check was between its ZCOUNT
\* and its ZRANGE.
C23_Witness ==
    \E p \in Procs :
        /\ Done(p) /\ failedAt[p] = "none"
        /\ count[p] > max_requests
        /\ zset[RateLimitKey(key[p])] = {}
        /\ clock >= now[p] + 2 * window_seconds
        /\ result[p] = LimitExceeded(window_seconds)
        /\ window_seconds > 1

\* C24: a check issues ZADD, EXPIRE, ZREMRANGEBYSCORE, ZCOUNT in this order,
\* issues ZRANGE only after it read a count above max_requests, and issues
\* nothing more after a command of it failed.
CommandOrder ==
    {<<"idle", "zadd">>, <<"zadd", "expire">>, <<"expire", "zrem">>,
     <<"zrem", "zcount">>, <<"zcount", "zrange">>}

C24_CommandsInFixedOrder ==
    [][\A p \in Procs :
          pc'[p] # pc[p] =>
              /\ \/ <<pc[p], pc'[p]>> \in CommandOrder
                 \/ pc'[p] = "done" /\ pc[p] # "done"
                 \/ pc[p] = "done" /\ pc'[p] = "idle"
              /\ pc'[p] = "zrange" => count'[p] > max_requests
              /\ (pc[p] = "zcount" /\ pc'[p] = "done" /\ failedAt'[p] = "none")
                     => count'[p] <= max_requests
              /\ (pc'[p] = "done" /\ pc[p] \notin {"zcount", "zrange"})
                     => failedAt'[p] \in {pc[p], "get_conn"}
              /\ failedAt'[p] \notin {"none", failedAt[p]}
                     => pc'[p] = "done" /\ result'[p].kind = "Redis"]_vars

\* One check went through all five commands and another stopped at its failed
\* ZREMRANGEBYSCORE.
C24_Witness ==
    \E p, q \in Procs :
        /\ Denied(p) /\ failedAt[p] = "none"
        /\ Done(q) /\ failedAt[q] = "zrem"

\* The seconds of the logged calls on k that returned LimitExceeded and whose
\* timestamp is less than window_seconds before t.
DeniedSeconds(k, t) ==
    {log[k][i][1] : i \in {j \in 1..Len(log[k]) :
                              /\ log[k][j][2] = "LimitExceeded"
                              /\ t - log[k][j][1] < window_seconds}}

C26_CountIncludesOwnEntry ==
    [][\A p \in Procs :
          (pc[p] = "zcount" /\ pc'[p] # "zcount" /\ failedAt'[p] = "none") =>
              /\ count'[p] >= 1
              /\ \E e \in zset[RateLimitKey(key[p])] :
                    /\ e.member = ReqMember(now[p])
                    /\ e.score >= now[p] - window_seconds]_vars

\* C27 (as claimed): an entry keeps its member and score for as long as it is
\* in the set, and it leaves the set only when the key expires or when the
\* purge of a check removes it as older than that check's window
\* [now - window_seconds, now].
C27_EntriesLeaveOnlyWhenAgedOut ==
    [][\A r \in RedisKeys : \A e \in zset[r] :
          \/ \E f \in zset'[r] : f.member = e.member /\ f.score = e.score
          \/ clock' # clock /\ Expired(r, clock')
          \/ \E p \in Procs :
                /\ pc[p] = "zrem" /\ pc'[p] = "zcount"
                /\ RateLimitKey(key[p]) = r
                /\ e.score < now[p] - window_seconds]_vars

\* The fields of a payload that viewing it leaves alone.
Identity(p) ==
    <<p.hash_id, p.content, p.mime_type, p.created_at, p.expiry_time>>

\* C28 (as claimed): a GetPayloadUseCaseImpl::execute that returns Ok has set
\* viewed_at, the repository then holds the viewed payload under the same hash
\* id, and hash_id, content, mime_type, created_at and expiry_time of the
\* stored payload are what they were.
C28_ViewedPayloadSavedBack ==
    [][\A t \in UcProcs :
          (/\ uc[t].op = "get" /\ uc[t].pc = "save"
           /\ uc'[t].pc = "done" /\ uc'[t].result = "Ok") =>
              /\ uc'[t].payload.viewed_at # NoTime
              /\ uc'[t].payload.hash_id = uc[t].hash
              /\ store'[uc[t].hash].payload = uc'[t].payload
              /\ store[uc[t].hash].payload # NoPayload =>
                     Identity(store'[uc[t].hash].payload) =
                         Identity(store[uc[t].hash].payload)]_vars

\* C29 (as claimed): no unsigned subtraction of a check goes below zero:
\* now >= window_seconds when window_start is computed and, when the wait is
\* computed, t_oldest <= now and now - t_oldest <= window_seconds, also with
\* concurrent checks that read other clock values.
C29_NoUnsignedUnderflow ==
    [][\A p \in Procs :
          /\ pc'[p] = "zadd" => now'[p] - window_seconds >= 0
          /\ (/\ pc[p] = "zrange" /\ pc'[p] = "done" /\ failedAt'[p] = "none"
              /\ zset[RateLimitKey(key[p])] # {}) =>
                 LET t_oldest == MinOf(Scores(zset[RateLimitKey(key[p])]))
                 IN  /\ t_oldest <= now[p]
                     /\ now[p] - t_oldest <= window_seconds
                     /\ result'[p] # Panic]_vars

C31_StoredKeyHasExpiry ==
    \A r \in RedisKeys :
        zset[r] # {} =>
            \/ ttl[r] # NoTTL
            \/ \E p \in Procs : pc[p] = "expire" /\ RateLimitKey(key[p]) = r

C33_RetryingClientStaysDenied ==
    \A k \in Keys : \A i, j \in 1..Len(log[k]) :
        (/\ i < j
         /\ max_requests < window_seconds
         /\ log[k][i][2] = "LimitExceeded"
         /\ \A m \in i..j : Undisturbed(k, m)
         /\ \A m \in i..(j - 1) : log[k][m + 1][1] - log[k][m][1] <= 1)
            => log[k][j][2] = "LimitExceeded"

\* Allowed, denied a second later, and denied again a second after that with
\* the first (allowed) call already out of the window.
C33_Witness ==
    \E k \in Keys :
        /\ Len(log[k]) = 3
        /\ max_requests = 1 /\ window_seconds = 2
        /\ \A m \in 1..3 : Undisturbed(k, m)
        /\ log[k][1][2] = "Ok"
        /\ log[k][2][2] = "LimitExceeded" /\ log[k][2][1] = log[k][1][1] + 1
        /\ log[k][3][2] = "LimitExceeded" /\ log[k][3][1] = log[k][2][1] + 1

\* C34 (as claimed): once a delete of a payload id has returned, the
\* repository holds no payload under that id (so no later get returns it),
\* whatever a concurrent GetPayloadUseCaseImpl::execute on the id does.
C34_DeletedPayloadStaysDeleted ==
    \A t \in UcProcs :
        (/\ uc[t].op = "delete" /\ uc[t].pc = "done" /\ uc[t].result = "Ok"
         /\ uc[t].payload # NoPayload)
            => RepoGet(store, uc[t].hash) = NoPayload

====
